---- MODULE Spec2Model ----
(***************************************************************************)
(* State-machine model of the nice_view_disp status widget                 *)
(* (boards/shields/nice_view_disp/widgets/status.c): the widget registry,  *)
(* the per-widget status snapshot, the four display listeners (battery,    *)
(* output, layer, keypress), the key-label decoder, the keypress debounce  *)
(* and the three zone renderers.                                           *)
(*                                                                         *)
(* A listener handles an event in steps of two threads.  On the thread of  *)
(* the event's source its event callback reads the event and the getters   *)
(* into the listener's state under the listener's mutex, releases the      *)
(* mutex, and then submits the listener's work item.  The display work     *)
(* queue's thread takes the work item off the queue, then its handler      *)
(* copies the state under the mutex, and then it runs the update callback  *)
(* on the copy over the whole registry.                                    *)
(***************************************************************************)
EXTENDS Integers, Sequences, FiniteSets, TLC

(***************************************************************************)
(* Bounds of the model.                                                    *)
(***************************************************************************)
MaxWidgets == 2
MaxTicks == 3
MaxJumps == 1
MaxKeycode == 255
MaxPosition == 47
MaxPending == 1
MaxCallers == 1

(***************************************************************************)
(* Program constants.                                                      *)
(***************************************************************************)
KEYPRESS_RENDER_INTERVAL_MS == 100
NumProfileSlots == 5
LimbBase == 65536

VARIABLES
    HAVE_KEYCODE_EVENTS,       \* build: rich keycode events (TRUE) or positions
    CONFIG_USB_DEVICE_STACK,   \* build: charge-source sensing compiled in
    CONFIG_ZMK_BLE,            \* build: the BLE profile subscription compiled in
    initialized,               \* what zmk_display_is_initialized() returns
    widgets,                   \* the registry list, head first
    wid,                       \* widget id -> [state, canvas]
    last_keypress_render_ms,   \* uint32 as limbs [hi, lo]
    has_last_keypress_render,
    stored,                    \* listener -> the state its event callback stored
    work_q,                    \* the listeners' work items pending in the display
                               \* work queue, first to run first
    unsubmitted,               \* listener -> how many of its event callbacks have
                               \* stored the state and not yet submitted the work item
    running,                   \* the handler running on the work queue's thread:
                               \* its work item (or "none"), whether <listener>_init
                               \* called it, whether it holds its copy, and the copy
                               \* with the event and getter values it came from
    reg,                       \* the registration under way: pc 0 none, 1..4 the
                               \* <listener>_init to call next, 5 the last one is
                               \* running; the getters
    uptime,                    \* device uptime in ms, [hi, lo]: hi * 2^16 + lo
    nticks, njumps,            \* how many clock steps were taken (bounded)
    ev,                        \* the step that produced this state, with its inputs
    drawn,                     \* the draw calls of that step, in call order
    origin,                    \* history: listener -> the event and getter values
                               \* of the stored state its update callback is still
                               \* to run on
    accept_uptime,             \* history: full uptime at the last accepted press
    dropped_since              \* history: a press was dropped since that press

vars == <<HAVE_KEYCODE_EVENTS, CONFIG_USB_DEVICE_STACK, CONFIG_ZMK_BLE, initialized, widgets,
          wid, last_keypress_render_ms, has_last_keypress_render, stored, work_q,
          unsubmitted, running, reg, uptime, nticks, njumps, ev, drawn, origin, accept_uptime,
          dropped_since>>

WidgetIds == 1..MaxWidgets

(***************************************************************************)
(* 32-bit unsigned arithmetic on two 16-bit limbs (TLC integers are signed  *)
(* 32-bit).  The uptime keeps an unbounded high limb; the value            *)
(* k_uptime_get_32() returns is its low 32 bits.                           *)
(***************************************************************************)
U32Zero == [hi |-> 0, lo |-> 0]

TimeAdd(t, d) ==
    LET lo == t.lo + d.lo
    IN  [hi |-> t.hi + d.hi + (lo \div LimbBase), lo |-> lo % LimbBase]

\* a - b on unbounded two-limb values, for a >= b
TimeSub(a, b) ==
    LET borrow == IF a.lo < b.lo THEN 1 ELSE 0
    IN  [hi |-> a.hi - b.hi - borrow, lo |-> (a.lo - b.lo) + borrow * LimbBase]

TimeLess(t, n) == t.hi = 0 /\ t.lo < n

\* (uint32_t)(a - b)
U32Sub(a, b) ==
    LET borrow == IF a.lo < b.lo THEN 1 ELSE 0
    IN  [hi |-> (a.hi - b.hi - borrow) % LimbBase,
         lo |-> (a.lo - b.lo) % LimbBase]

U32Less(a, n) == a.hi = 0 /\ a.lo < n

k_uptime_get_32(t) == [hi |-> t.hi % LimbBase, lo |-> t.lo]

(***************************************************************************)
(* Text helpers: snprintf into a buffer of out_len bytes keeps at most     *)
(* out_len - 1 characters; %u and %i print decimals.                       *)
(***************************************************************************)
Digits == <<"0", "1", "2", "3", "4", "5", "6", "7", "8", "9">>

RECURSIVE Decimal(_)
Decimal(n) ==
    IF n < 10 THEN Digits[n + 1]
    ELSE Decimal(n \div 10) \o Digits[(n % 10) + 1]

snprintf(out_len, s) ==
    IF Len(s) < out_len THEN s ELSE SubSeq(s, 1, out_len - 1)

(***************************************************************************)
(* The key-label decoder.                                                  *)
(***************************************************************************)
default_key_labels ==
    << "TAB", "Q", "W", "E", "R", "T", "MUTE", "PP", "Y", "U", "I", "O", "P", "BSPC",
       "ESC", "A", "S", "D", "F", "G", "LALT", "RALT", "H", "J", "K", "L", ";", "'",
       "LSHFT", "Z", "X", "C", "V", "B", "N", "M", ",", ".", "/", "ENTER",
       "ALT", "LOWER", "LCTRL", "SPACE", "RAISE", "GUI" >>

NoLabel == [found |-> FALSE, text |-> ""]
Label(s) == [found |-> TRUE, text |-> s]

\* Variant: the last entry of the table is out of reach.
label_for_position_short(position) ==
    IF position < Len(default_key_labels) - 1
    THEN Label(default_key_labels[position + 1])
    ELSE NoLabel

\* NULL is NoLabel
label_for_position(position) ==
    IF position < Len(default_key_labels)
    THEN Label(default_key_labels[position + 1])
    ELSE NoLabel

Bit(byte, k) == (byte \div (2 ^ k)) % 2 = 1

\* Variant: only the explicit modifiers are tested.
Shifted_explicit_only(state) ==
    Bit(state.explicit_modifiers, 1) \/ Bit(state.explicit_modifiers, 5)

\* ((implicit | explicit) & (BIT(1) | BIT(5))) != 0
Shifted(state) ==
    \/ Bit(state.implicit_modifiers, 1) \/ Bit(state.explicit_modifiers, 1)
    \/ Bit(state.implicit_modifiers, 5) \/ Bit(state.explicit_modifiers, 5)

LetterLabels ==
    << "A", "B", "C", "D", "E", "F", "G", "H", "I", "J", "K", "L", "M",
       "N", "O", "P", "Q", "R", "S", "T", "U", "V", "W", "X", "Y", "Z" >>

\* The label of keycode 0x35 is the one character U+0060, which the language's
\* string literals cannot hold; it is written by this name.
GraveAccent == "<grave>"

\* the switch over keycode on usage page 0x07
KeyboardSwitch(keycode, shifted) ==
    LET two(plain, shift) == Label(IF shifted THEN shift ELSE plain)
    IN  CASE keycode = \H1e -> two("1", "!")
          [] keycode = \H1f -> two("2", "@")
          [] keycode = \H20 -> two("3", "#")
          [] keycode = \H21 -> two("4", "$")
          [] keycode = \H22 -> two("5", "%")
          [] keycode = \H23 -> two("6", "^")
          [] keycode = \H24 -> two("7", "&")
          [] keycode = \H25 -> two("8", "*")
          [] keycode = \H26 -> two("9", "(")
          [] keycode = \H27 -> two("0", ")")
          [] keycode = \H28 -> Label("ENTER")
          [] keycode = \H29 -> Label("ESC")
          [] keycode = \H2a -> Label("BSPC")
          [] keycode = \H2b -> Label("TAB")
          [] keycode = \H2c -> Label("SPACE")
          [] keycode = \H2d -> two("-", "_")
          [] keycode = \H2e -> two("=", "+")
          [] keycode = \H2f -> two("[", "{")
          [] keycode = \H30 -> two("]", "}")
          [] keycode = \H31 -> two("\\", "|")
          [] keycode = \H33 -> two(";", ":")
          [] keycode = \H34 -> two("'", "\"")
          [] keycode = \H35 -> two(GraveAccent, "~")
          [] keycode = \H36 -> two(",", "<")
          [] keycode = \H37 -> two(".", ">")
          [] keycode = \H38 -> two("/", "?")
          [] keycode = \H3a -> Label("F1")
          [] keycode = \H3b -> Label("F2")
          [] keycode = \H3c -> Label("F3")
          [] keycode = \H3d -> Label("F4")
          [] keycode = \H3e -> Label("F5")
          [] keycode = \H3f -> Label("F6")
          [] keycode = \H40 -> Label("F7")
          [] keycode = \H41 -> Label("F8")
          [] keycode = \H42 -> Label("F9")
          [] keycode = \H43 -> Label("F10")
          [] keycode = \H44 -> Label("F11")
          [] keycode = \H45 -> Label("F12")
          [] keycode = \H4a -> Label("HOME")
          [] keycode = \H4b -> Label("PGUP")
          [] keycode = \H4c -> Label("DEL")
          [] keycode = \H4d -> Label("END")
          [] keycode = \H4e -> Label("PGDN")
          [] keycode = \H4f -> Label("RIGHT")
          [] keycode = \H50 -> Label("LEFT")
          [] keycode = \H51 -> Label("DOWN")
          [] keycode = \H52 -> Label("UP")
          [] keycode = \He0 -> Label("LCTRL")
          [] keycode = \He1 -> Label("LSHFT")
          [] keycode = \He2 -> Label("LALT")
          [] keycode = \He3 -> Label("LGUI")
          [] keycode = \He4 -> Label("RCTRL")
          [] keycode = \He5 -> Label("RSHFT")
          [] keycode = \He6 -> Label("RALT")
          [] keycode = \He7 -> Label("RGUI")
          [] OTHER -> NoLabel

\* Variant: the default case of the consumer switch writes nothing.
ConsumerSwitch_no_default(keycode) ==
    CASE keycode = \He2 -> Label("MUTE")
      [] keycode = \He9 -> Label("VOL+")
      [] keycode = \Hea -> Label("VOL-")
      [] keycode = \Hb5 -> Label("NEXT")
      [] keycode = \Hb6 -> Label("PREV")
      [] keycode = \Hcd -> Label("PLAY")
      [] OTHER -> NoLabel

\* the switch over keycode on usage page 0x0c
ConsumerSwitch(keycode) ==
    CASE keycode = \He2 -> Label("MUTE")
      [] keycode = \He9 -> Label("VOL+")
      [] keycode = \Hea -> Label("VOL-")
      [] keycode = \Hb5 -> Label("NEXT")
      [] keycode = \Hb6 -> Label("PREV")
      [] keycode = \Hcd -> Label("PLAY")
      [] OTHER -> Label("MEDIA")

\* Variant: a label is written only into an empty buffer.
format_key_label_keep_nonempty(out, out_len, state) ==
    LET hit == IF HAVE_KEYCODE_EVENTS
               THEN IF state.usage_page = \H07
                    THEN IF state.keycode >= \H04 /\ state.keycode <= \H1d
                         THEN Label(LetterLabels[(state.keycode - \H04) + 1])
                         ELSE KeyboardSwitch(state.keycode, Shifted(state))
                    ELSE IF state.usage_page = \H0c
                         THEN ConsumerSwitch(state.keycode)
                         ELSE NoLabel
               ELSE label_for_position(state.position)
    IN  IF hit.found
        THEN [matched |-> TRUE,
              out |-> IF out = "" THEN snprintf(out_len, hit.text) ELSE out]
        ELSE [matched |-> FALSE, out |-> out]

\* Variant: the upper end of the letter range is exclusive.
format_key_label_exclusive_range(out, out_len, state) ==
    LET hit == IF HAVE_KEYCODE_EVENTS
               THEN IF state.usage_page = \H07
                    THEN IF state.keycode >= \H04 /\ state.keycode < \H1d
                         THEN Label(LetterLabels[(state.keycode - \H04) + 1])
                         ELSE KeyboardSwitch(state.keycode, Shifted(state))
                    ELSE IF state.usage_page = \H0c
                         THEN ConsumerSwitch(state.keycode)
                         ELSE NoLabel
               ELSE label_for_position(state.position)
    IN  IF hit.found
        THEN [matched |-> TRUE, out |-> snprintf(out_len, hit.text)]
        ELSE [matched |-> FALSE, out |-> out]

\* returns [matched, out]: out is the buffer after the call (untouched when
\* nothing was written)
format_key_label(out, out_len, state) ==
    LET hit == IF HAVE_KEYCODE_EVENTS
               THEN IF state.usage_page = \H07
                    THEN IF state.keycode >= \H04 /\ state.keycode <= \H1d
                         THEN Label(LetterLabels[(state.keycode - \H04) + 1])
                         ELSE KeyboardSwitch(state.keycode, Shifted(state))
                    ELSE IF state.usage_page = \H0c
                         THEN ConsumerSwitch(state.keycode)
                         ELSE NoLabel
               ELSE label_for_position(state.position)
    IN  IF hit.found
        THEN [matched |-> TRUE, out |-> snprintf(out_len, hit.text)]
        ELSE [matched |-> FALSE, out |-> out]

(***************************************************************************)
(* The status snapshot and the three canvases of a widget.                 *)
(***************************************************************************)
\* sizeof(widget->state.last_key): the field is declared in status.h
LastKeySize == 10

\* a C string pointer: NULL or a string
NullStr == [null |-> TRUE, s |-> ""]
Str(s) == [null |-> FALSE, s |-> s]

\* a widget in static storage before zmk_widget_status_init: all zero
ZeroState ==
    [ battery |-> 0,
      charging |-> FALSE,
      selected_endpoint |-> [transport |-> "USB"],
      active_profile_index |-> 0,
      active_profile_connected |-> FALSE,
      active_profile_bonded |-> FALSE,
      layer_index |-> 0,
      layer_label |-> NullStr,
      last_key |-> "",
      show_last_key |-> FALSE ]

Slots == 0..(NumProfileSlots - 1)

BlankCanvas ==
    [ top |-> [output_text |-> "", key_shown |-> FALSE, key_text |-> ""],
      middle |-> [i \in Slots |-> [selected |-> FALSE, label |-> ""]],
      bottom |-> "" ]

ZeroWidget == [state |-> ZeroState, canvas |-> BlankCanvas]

NullEvent == [type |-> "NULL"]

\* the program's memory, threaded through the handlers: the registry, the
\* widgets, the debounce globals, the listeners' states, the work queue, and
\* the log of draw calls and of the debounce decision of the handler that is
\* running
Prog ==
    [ widgets |-> widgets,
      wid |-> wid,
      last_keypress_render_ms |-> last_keypress_render_ms,
      has_last_keypress_render |-> has_last_keypress_render,
      stored |-> stored,
      work_q |-> work_q,
      drawn |-> <<>>,
      accepted |-> FALSE ]

(***************************************************************************)
(* The renderers.  Each paints its zone from the widget's snapshot.        *)
(***************************************************************************)
\* Variant: the connection is tested before the bond.
OutputText_connected_first(state) ==
    CASE state.selected_endpoint.transport = "USB" -> "LV_SYMBOL_USB"
      [] state.selected_endpoint.transport = "BLE" ->
            IF state.active_profile_connected
            THEN "BLE_CONNECTED_SYMBOL"
            ELSE IF state.active_profile_bonded
                 THEN "LV_SYMBOL_CLOSE"
                 ELSE "LV_SYMBOL_SETTINGS"
      [] OTHER -> ""

OutputText(state) ==
    CASE state.selected_endpoint.transport = "USB" -> "LV_SYMBOL_USB"
      [] state.selected_endpoint.transport = "BLE" ->
            IF state.active_profile_bonded
            THEN IF state.active_profile_connected
                 THEN "BLE_CONNECTED_SYMBOL"
                 ELSE "LV_SYMBOL_CLOSE"
            ELSE "LV_SYMBOL_SETTINGS"
      [] OTHER -> ""

Painted(P, w, zone) == Append(P.drawn, [widget |-> w, zone |-> zone])

draw_top(P, w) ==
    LET state == P.wid[w].state
    IN  [P EXCEPT
            !.wid[w].canvas.top =
                [ output_text |-> OutputText(state),
                  key_shown |-> state.show_last_key,
                  key_text |-> IF state.show_last_key THEN state.last_key ELSE "" ],
            !.drawn = Painted(P, w, "top")]

\* Variant: the slot is matched against its one-based number.
draw_middle_one_based(P, w) ==
    LET state == P.wid[w].state
    IN  [P EXCEPT
            !.wid[w].canvas.middle =
                [i \in Slots |->
                    [ selected |-> (i + 1 = state.active_profile_index),
                      label |-> snprintf(2, Decimal(i + 1)) ]],
            !.drawn = Painted(P, w, "middle")]

draw_middle(P, w) ==
    LET state == P.wid[w].state
    IN  [P EXCEPT
            !.wid[w].canvas.middle =
                [i \in Slots |->
                    [ selected |-> (i = state.active_profile_index),
                      label |-> snprintf(2, Decimal(i + 1)) ]],
            !.drawn = Painted(P, w, "middle")]

\* Variant: only a NULL label falls back to the index.
draw_bottom_null_only(P, w) ==
    LET state == P.wid[w].state
    IN  [P EXCEPT
            !.wid[w].canvas.bottom =
                IF state.layer_label.null
                THEN "LAYER " \o Decimal(state.layer_index)
                ELSE state.layer_label.s,
            !.drawn = Painted(P, w, "bottom")]

draw_bottom(P, w) ==
    LET state == P.wid[w].state
    IN  [P EXCEPT
            !.wid[w].canvas.bottom =
                IF state.layer_label.null \/ Len(state.layer_label.s) = 0
                THEN "LAYER " \o Decimal(state.layer_index)
                ELSE state.layer_label.s,
            !.drawn = Painted(P, w, "bottom")]

(***************************************************************************)
(* The battery listener.  `env' holds what the device getters return while *)
(* the handler runs.                                                       *)
(***************************************************************************)
\* Variant: the top zone is repainted only when a value changed.
set_battery_status_draw_if_changed(P, w, state) ==
    LET Q == [P EXCEPT
                 !.wid[w].state.charging =
                     IF CONFIG_USB_DEVICE_STACK THEN state.usb_present ELSE @,
                 !.wid[w].state.battery = state.level]
    IN  IF Q.wid[w].state = P.wid[w].state THEN Q ELSE draw_top(Q, w)

\* Variant: the snapshot is assigned as a whole, zeroing the other fields.
set_battery_status_whole_struct(P, w, state) ==
    draw_top([P EXCEPT
                 !.wid[w].state =
                     [ZeroState EXCEPT
                         !.charging = IF CONFIG_USB_DEVICE_STACK
                                      THEN state.usb_present ELSE FALSE,
                         !.battery = state.level]], w)

set_battery_status(P, w, state) ==
    draw_top([P EXCEPT
                 !.wid[w].state.charging =
                     IF CONFIG_USB_DEVICE_STACK THEN state.usb_present ELSE @,
                 !.wid[w].state.battery = state.level], w)

\* Variant: only the head of the list is updated.
battery_status_update_cb_head_only(P, state) ==
    IF Len(P.widgets) = 0 THEN P ELSE set_battery_status(P, P.widgets[1], state)

\* SYS_SLIST_FOR_EACH_CONTAINER(&widgets, widget, node): run[i] is the memory
\* after the body ran on the first i nodes of the list
battery_status_update_cb(P, state) ==
    LET run[i \in 0..Len(P.widgets)] ==
            IF i = 0 THEN P ELSE set_battery_status(run[i - 1], P.widgets[i], state)
    IN  run[Len(P.widgets)]

\* Variant: the level is always read from the getter.
battery_status_get_state_from_getter(eh, env) ==
    [ level |-> env.zmk_battery_state_of_charge,
      usb_present |-> IF CONFIG_USB_DEVICE_STACK
                      THEN env.zmk_usb_is_powered
                      ELSE FALSE ]

\* as_zmk_battery_state_changed(eh) is NULL unless eh is that event
battery_status_get_state(eh, env) ==
    [ level |-> IF eh.type = "zmk_battery_state_changed"
                THEN eh.state_of_charge
                ELSE env.zmk_battery_state_of_charge,
      usb_present |-> IF CONFIG_USB_DEVICE_STACK
                      THEN env.zmk_usb_is_powered
                      ELSE FALSE ]

(***************************************************************************)
(* The output (endpoint) listener.                                         *)
(***************************************************************************)
set_output_status(P, w, state) ==
    draw_middle(
        draw_top([P EXCEPT
                     !.wid[w].state.selected_endpoint = state.selected_endpoint,
                     !.wid[w].state.active_profile_index = state.active_profile_index,
                     !.wid[w].state.active_profile_connected =
                         state.active_profile_connected,
                     !.wid[w].state.active_profile_bonded =
                         state.active_profile_bonded], w), w)

output_status_update_cb(P, state) ==
    LET run[i \in 0..Len(P.widgets)] ==
            IF i = 0 THEN P ELSE set_output_status(run[i - 1], P.widgets[i], state)
    IN  run[Len(P.widgets)]

output_status_get_state(eh, env) ==
    [ selected_endpoint |-> env.zmk_endpoints_selected,
      active_profile_index |-> env.zmk_ble_active_profile_index,
      active_profile_connected |-> env.zmk_ble_active_profile_is_connected,
      active_profile_bonded |-> ~env.zmk_ble_active_profile_is_open ]

(***************************************************************************)
(* The layer listener.                                                     *)
(***************************************************************************)
set_layer_status(P, w, state) ==
    draw_bottom([P EXCEPT
                    !.wid[w].state.layer_index = state.index,
                    !.wid[w].state.layer_label = state.label], w)

layer_status_update_cb(P, state) ==
    LET run[i \in 0..Len(P.widgets)] ==
            IF i = 0 THEN P ELSE set_layer_status(run[i - 1], P.widgets[i], state)
    IN  run[Len(P.widgets)]

layer_status_get_state(eh, env) ==
    [ index |-> env.zmk_keymap_highest_layer_active,
      label |-> env.zmk_keymap_layer_name ]

(***************************************************************************)
(* The keypress listener and its debounce.                                 *)
(***************************************************************************)
\* Variant: the key is shown only when the decoder matched.
set_keypress_status_show_if_matched(P, w, state) ==
    LET r == format_key_label(P.wid[w].state.last_key, LastKeySize, state)
        text == IF r.matched THEN r.out
                ELSE IF HAVE_KEYCODE_EVENTS
                     THEN snprintf(LastKeySize, "KEY")
                     ELSE snprintf(LastKeySize, "K" \o Decimal(state.position))
    IN  draw_top([P EXCEPT
                     !.wid[w].state.last_key = text,
                     !.wid[w].state.show_last_key = r.matched], w)

\* Variant: an unmatched press leaves the label as it was.
set_keypress_status_keep_label(P, w, state) ==
    LET r == format_key_label(P.wid[w].state.last_key, LastKeySize, state)
    IN  draw_top([P EXCEPT
                     !.wid[w].state.last_key = r.out,
                     !.wid[w].state.show_last_key = TRUE], w)

set_keypress_status(P, w, state) ==
    LET r == format_key_label(P.wid[w].state.last_key, LastKeySize, state)
        text == IF r.matched THEN r.out
                ELSE IF HAVE_KEYCODE_EVENTS
                     THEN snprintf(LastKeySize, "KEY")
                     ELSE snprintf(LastKeySize, "K" \o Decimal(state.position))
    IN  draw_top([P EXCEPT
                     !.wid[w].state.last_key = text,
                     !.wid[w].state.show_last_key = TRUE], w)

\* Variant: the release check is missing.
keypress_status_update_cb_no_release_check(P, state, now) ==
    IF /\ P.has_last_keypress_render
       /\ U32Less(U32Sub(now, P.last_keypress_render_ms), KEYPRESS_RENDER_INTERVAL_MS)
    THEN P
    ELSE LET P0 == [P EXCEPT !.last_keypress_render_ms = now,
                             !.has_last_keypress_render = TRUE,
                             !.accepted = TRUE]
             run[i \in 0..Len(P0.widgets)] ==
                 IF i = 0 THEN P0
                 ELSE set_keypress_status(run[i - 1], P0.widgets[i], state)
         IN  run[Len(P0.widgets)]

\* Variant: the interval is tested even when no render was recorded.
keypress_status_update_cb_no_flag(P, state, now) ==
    IF ~state.pressed
    THEN P
    ELSE IF U32Less(U32Sub(now, P.last_keypress_render_ms),
                    KEYPRESS_RENDER_INTERVAL_MS)
         THEN P
         ELSE LET P0 == [P EXCEPT !.last_keypress_render_ms = now,
                                   !.has_last_keypress_render = TRUE,
                                   !.accepted = TRUE]
                  run[i \in 0..Len(P0.widgets)] ==
                      IF i = 0 THEN P0
                      ELSE set_keypress_status(run[i - 1], P0.widgets[i], state)
              IN  run[Len(P0.widgets)]

\* Variant: the debounce check is missing.
keypress_status_update_cb_no_debounce(P, state, now) ==
    IF ~state.pressed
    THEN P
    ELSE LET P0 == [P EXCEPT !.last_keypress_render_ms = now,
                             !.has_last_keypress_render = TRUE,
                             !.accepted = TRUE]
             run[i \in 0..Len(P0.widgets)] ==
                 IF i = 0 THEN P0
                 ELSE set_keypress_status(run[i - 1], P0.widgets[i], state)
         IN  run[Len(P0.widgets)]

\* now is the value of k_uptime_get_32() at the call
keypress_status_update_cb(P, state, now) ==
    IF ~state.pressed
    THEN P
    ELSE IF /\ P.has_last_keypress_render
            /\ U32Less(U32Sub(now, P.last_keypress_render_ms),
                       KEYPRESS_RENDER_INTERVAL_MS)
         THEN P
         ELSE LET P0 == [P EXCEPT !.last_keypress_render_ms = now,
                                   !.has_last_keypress_render = TRUE,
                                   !.accepted = TRUE]
                  run[i \in 0..Len(P0.widgets)] ==
                      IF i = 0 THEN P0
                      ELSE set_keypress_status(run[i - 1], P0.widgets[i], state)
              IN  run[Len(P0.widgets)]

KeyEventType ==
    IF HAVE_KEYCODE_EVENTS
    THEN "zmk_keycode_state_changed"
    ELSE "zmk_position_state_changed"

\* struct keypress_status_state holds the usage page in a uint8_t
\* Variant: with no event the state is a press.
keypress_status_get_state_null_pressed(eh) ==
    LET none == (eh.type # KeyEventType)
    IN  IF HAVE_KEYCODE_EVENTS
        THEN [ usage_page |-> IF none THEN 0 ELSE eh.usage_page % 256,
               keycode |-> IF none THEN 0 ELSE eh.keycode,
               implicit_modifiers |-> IF none THEN 0 ELSE eh.implicit_modifiers,
               explicit_modifiers |-> IF none THEN 0 ELSE eh.explicit_modifiers,
               pressed |-> IF none THEN TRUE ELSE eh.state ]
        ELSE [ position |-> IF none THEN 0 ELSE eh.position,
               pressed |-> IF none THEN TRUE ELSE eh.state ]

keypress_status_get_state(eh) ==
    LET none == (eh.type # KeyEventType)
    IN  IF HAVE_KEYCODE_EVENTS
        THEN [ usage_page |-> IF none THEN 0 ELSE eh.usage_page % 256,
               keycode |-> IF none THEN 0 ELSE eh.keycode,
               implicit_modifiers |-> IF none THEN 0 ELSE eh.implicit_modifiers,
               explicit_modifiers |-> IF none THEN 0 ELSE eh.explicit_modifiers,
               pressed |-> IF none THEN FALSE ELSE eh.state ]
        ELSE [ position |-> IF none THEN 0 ELSE eh.position,
               pressed |-> IF none THEN FALSE ELSE eh.state ]


(***************************************************************************)
(* ZMK_DISPLAY_WIDGET_LISTENER(listener, state_type, cb, state_func).      *)
(* status.c invokes the macro once per listener; its body is ZMK's and is  *)
(* not part of the sources modelled here.  Each listener keeps one state   *)
(* of its own, guarded by a mutex.  <listener>_cb, when the display is     *)
(* initialized, calls <listener>_refresh_state, which stores               *)
(* state_func(eh) under the mutex, and then, the mutex released, submits   *)
(* the listener's work item to the display work queue.  The work queue     *)
(* takes a work item off the queue before it calls its handler             *)
(* <listener>_work_cb, which copies the state under the mutex              *)
(* (<listener>_get_local_state) and then, the mutex released, calls cb on  *)
(* the copy.  A work item that is in the queue is not queued a second      *)
(* time; one that was taken off the queue is queued again.                 *)
(* <listener>_init calls <listener>_refresh_state(NULL) and then the work  *)
(* handler itself.                                                         *)
(***************************************************************************)
\* the listener's work item is in the display work queue
Pending(P, work) == \E i \in 1..Len(P.work_q) : P.work_q[i] = work

k_work_submit_to_queue(P, work) ==
    IF Pending(P, work) THEN P ELSE [P EXCEPT !.work_q = Append(@, work)]

widget_battery_status_refresh_state(P, eh, env) ==
    [P EXCEPT !.stored.battery = battery_status_get_state(eh, env)]

widget_output_status_refresh_state(P, eh, env) ==
    [P EXCEPT !.stored.output = output_status_get_state(eh, env)]

widget_layer_status_refresh_state(P, eh, env) ==
    [P EXCEPT !.stored.layer = layer_status_get_state(eh, env)]

widget_keypress_status_refresh_state(P, eh) ==
    [P EXCEPT !.stored.keypress = keypress_status_get_state(eh)]

\* <listener>_refresh_state(NULL), the first call of <listener>_init
refresh_state_null(P, listener, env) ==
    CASE listener = "battery" -> widget_battery_status_refresh_state(P, NullEvent, env)
      [] listener = "output" -> widget_output_status_refresh_state(P, NullEvent, env)
      [] listener = "layer" -> widget_layer_status_refresh_state(P, NullEvent, env)
      [] listener = "keypress" -> widget_keypress_status_refresh_state(P, NullEvent)

\* <listener>_get_local_state: the copy of the listener's state
get_local_state(P, listener) == P.stored[listener]

\* <listener>_work_cb once it holds the copy: cb(copy); now is the value of
\* k_uptime_get_32() when cb runs
work_handler(P, work, copy, now) ==
    CASE work = "battery" -> battery_status_update_cb(P, copy)
      [] work = "output" -> output_status_update_cb(P, copy)
      [] work = "layer" -> layer_status_update_cb(P, copy)
      [] work = "keypress" -> keypress_status_update_cb(P, copy, now)

\* Variant: the node is put at the head of the list.
sys_slist_prepend(P, w) == [P EXCEPT !.widgets = <<w>> \o @]

sys_slist_append(P, w) == [P EXCEPT !.widgets = Append(@, w)]

\* the order of the four <listener>_init calls of zmk_widget_status_init
InitOrder == <<"battery", "output", "layer", "keypress">>

(***************************************************************************)
(* Inputs: the events the bus delivers and the values the getters return.  *)
(***************************************************************************)
BatteryLevels == {7, 100}

BatteryEnv ==
    [ zmk_battery_state_of_charge : BatteryLevels,
      zmk_usb_is_powered : IF CONFIG_USB_DEVICE_STACK THEN BOOLEAN ELSE {FALSE} ]

\* the events the battery listener subscribes to; the battery-changed event
\* carries a state of charge of its own
BatteryEvents ==
    [type : {"zmk_battery_state_changed"}, state_of_charge : BatteryLevels]
    \cup (IF CONFIG_USB_DEVICE_STACK
          THEN {[type |-> "zmk_usb_conn_state_changed"]} ELSE {})

OutputEvents ==
    {[type |-> "zmk_endpoint_changed"]}
    \cup (IF CONFIG_USB_DEVICE_STACK
          THEN {[type |-> "zmk_usb_conn_state_changed"]} ELSE {})
    \cup (IF CONFIG_ZMK_BLE
          THEN {[type |-> "zmk_ble_active_profile_changed"]} ELSE {})

OutputGetters(t, i, c, o) ==
    [ zmk_endpoints_selected |-> [transport |-> t],
      zmk_ble_active_profile_index |-> i,
      zmk_ble_active_profile_is_connected |-> c,
      zmk_ble_active_profile_is_open |-> o ]

OutputEnv ==
    { OutputGetters("USB", 0, FALSE, TRUE),
      OutputGetters("BLE", 4, TRUE, FALSE) }

LayerEvents == {[type |-> "zmk_layer_state_changed"]}

LayerGetters(i, n) ==
    [zmk_keymap_highest_layer_active |-> i, zmk_keymap_layer_name |-> n]

LayerEnv == { LayerGetters(0, NullStr), LayerGetters(3, Str("NAV")) }

\* key events over the keycodes (or positions) K
KeyEvents(K) ==
    IF HAVE_KEYCODE_EVENTS
    THEN [ type : {"zmk_keycode_state_changed"},
           usage_page : {\H07}, keycode : K,
           implicit_modifiers : {0}, explicit_modifiers : {0},
           state : BOOLEAN ]
    ELSE [ type : {"zmk_position_state_changed"},
           position : K, state : BOOLEAN ]

\* keycode 0x04 is "A" and 0x03 has no label; position 0 is "TAB" and
\* position 46 is past the table
OneKey == IF HAVE_KEYCODE_EVENTS THEN {\H04} ELSE {0}
TwoKeys == IF HAVE_KEYCODE_EVENTS THEN {\H03, \H04} ELSE {0, 46}

NoEnv == [none |-> TRUE]

MergeEnv(b, o, l) ==
    [ zmk_battery_state_of_charge |-> b.zmk_battery_state_of_charge,
      zmk_usb_is_powered |-> b.zmk_usb_is_powered,
      zmk_endpoints_selected |-> o.zmk_endpoints_selected,
      zmk_ble_active_profile_index |-> o.zmk_ble_active_profile_index,
      zmk_ble_active_profile_is_connected |-> o.zmk_ble_active_profile_is_connected,
      zmk_ble_active_profile_is_open |-> o.zmk_ble_active_profile_is_open,
      zmk_keymap_highest_layer_active |-> l.zmk_keymap_highest_layer_active,
      zmk_keymap_layer_name |-> l.zmk_keymap_layer_name ]

\* clock steps: 50 ms, and 2^32 - 100 ms
TickStep == [hi |-> 0, lo |-> 50]
JumpStep == [hi |-> 65535, lo |-> 65436]

(***************************************************************************)
(* The state machine.  Events are raised on the threads of their sources;  *)
(* the work items and zmk_widget_status_init run on the display work       *)
(* queue's thread, one at a time.                                          *)
(***************************************************************************)
Listeners == {"battery", "output", "layer", "keypress"}

Registered == {widgets[i] : i \in 1..Len(widgets)}

\* the listeners' states in static storage: all zero
ZeroStored ==
    [ battery |-> [level |-> 0, usb_present |-> FALSE],
      output |-> [ selected_endpoint |-> [transport |-> "USB"],
                   active_profile_index |-> 0,
                   active_profile_connected |-> FALSE,
                   active_profile_bonded |-> FALSE ],
      layer |-> [index |-> 0, label |-> NullStr],
      keypress |-> IF HAVE_KEYCODE_EVENTS
                   THEN [ usage_page |-> 0, keycode |-> 0,
                          implicit_modifiers |-> 0, explicit_modifiers |-> 0,
                          pressed |-> FALSE ]
                   ELSE [position |-> 0, pressed |-> FALSE] ]

NoOrigin == [eh |-> NullEvent, env |-> NoEnv]

Idle == [pc |-> 0, env |-> NoEnv]

\* no handler is running on the display work queue's thread
NoHandler ==
    [ work |-> "none", init |-> FALSE, copied |-> FALSE,
      state |-> NoEnv, eh |-> NullEvent, env |-> NoEnv ]

Init ==
    /\ HAVE_KEYCODE_EVENTS \in BOOLEAN
    /\ CONFIG_USB_DEVICE_STACK \in BOOLEAN
    /\ CONFIG_ZMK_BLE \in BOOLEAN
    /\ initialized = FALSE
    /\ widgets = <<>>
    /\ wid = [w \in WidgetIds |-> ZeroWidget]
    /\ last_keypress_render_ms = U32Zero
    /\ has_last_keypress_render = FALSE
    /\ stored = ZeroStored
    /\ work_q = <<>>
    /\ unsubmitted = [l \in Listeners |-> 0]
    /\ running = NoHandler
    /\ reg = Idle
    /\ uptime = U32Zero
    /\ nticks = 0
    /\ njumps = 0
    /\ ev = [kind |-> "boot", eh |-> NullEvent, env |-> NoEnv,
             accepted |-> FALSE, changed |-> FALSE]
    /\ drawn = <<>>
    /\ origin = [l \in Listeners |-> NoOrigin]
    /\ accept_uptime = U32Zero
    /\ dropped_since = FALSE

\* the builds with both device options on: the keypress listener reads neither
InitKeys == Init /\ CONFIG_USB_DEVICE_STACK /\ CONFIG_ZMK_BLE

\* the builds with keycode events: the other listeners do not read the option
InitRender == Init /\ HAVE_KEYCODE_EVENTS

\* the state a key event (or none) gives: pressed or not
Pressed(eh) == keypress_status_get_state(eh).pressed

\* the code of the step ran to completion and left the program's memory as P
Ran(kind, eh, env, P) ==
    /\ widgets' = P.widgets
    /\ wid' = P.wid
    /\ last_keypress_render_ms' = P.last_keypress_render_ms
    /\ has_last_keypress_render' = P.has_last_keypress_render
    /\ stored' = P.stored
    /\ work_q' = P.work_q
    /\ drawn' = P.drawn
    /\ ev' = [kind |-> kind, eh |-> eh, env |-> env,
              accepted |-> P.accepted,
              changed |-> ([w \in WidgetIds |-> P.wid[w].state]
                             # [w \in WidgetIds |-> wid[w].state])]
    /\ accept_uptime' = IF P.accepted THEN uptime ELSE accept_uptime
    /\ dropped_since' = IF P.accepted THEN FALSE
                        ELSE IF kind = "keypress" /\ Pressed(eh) THEN TRUE
                        ELSE dropped_since
    /\ UNCHANGED <<HAVE_KEYCODE_EVENTS, CONFIG_USB_DEVICE_STACK, CONFIG_ZMK_BLE,
                   initialized, uptime, nticks, njumps>>

\* the display work queue's thread is free: no handler and no registration
ThreadFree == reg.pc = 0 /\ running.work = "none"

\* the display is set up on the display work queue's thread; from then on
\* zmk_display_is_initialized() is true.  Whether that comes before or after
\* the widgets are registered is decided outside status.c: both happen here.
InitializeDisplay ==
    /\ ~initialized
    /\ ThreadFree
    /\ initialized' = TRUE
    /\ ev' = [kind |-> "display_init", eh |-> NullEvent, env |-> NoEnv,
              accepted |-> FALSE, changed |-> FALSE]
    /\ drawn' = <<>>
    /\ UNCHANGED <<HAVE_KEYCODE_EVENTS, CONFIG_USB_DEVICE_STACK, CONFIG_ZMK_BLE,
                   widgets, wid, last_keypress_render_ms, has_last_keypress_render,
                   stored, work_q, unsubmitted, running, reg, uptime, nticks,
                   njumps, origin, accept_uptime, dropped_since>>

\* listener l has a callback between store and submit, or its work item is
\* in the queue, or the work queue runs its handler (the handler a
\* registration calls is the registration's work, not the listener's)
Busy(l) ==
    \/ unsubmitted[l] > 0
    \/ Pending(Prog, l)
    \/ running.work = l /\ ~running.init

\* the listeners that have work under way
Load == Cardinality({l \in Listeners : Busy(l)})

\* a listener's event callback, the display being initialized (before that
\* it returns at once and changes nothing), stored the state of event eh,
\* read while the getters returned env, and released the mutex; its submit
\* is still to come
Raised(l, eh, env, P) ==
    /\ initialized
    /\ unsubmitted[l] < MaxCallers
    /\ Busy(l) \/ Load < MaxPending
    /\ Ran("raise_" \o l, NullEvent, NoEnv, P)
    /\ origin' = [origin EXCEPT ![l] = [eh |-> eh, env |-> env]]
    /\ unsubmitted' = [unsubmitted EXCEPT ![l] = @ + 1]
    /\ UNCHANGED <<reg, running>>

\* the device state while a widget is being registered
SteadyBattery == {[zmk_battery_state_of_charge |-> 100, zmk_usb_is_powered |-> FALSE]}
SteadyOutput == {OutputGetters("BLE", 4, TRUE, FALSE)}
SteadyLayer == {LayerGetters(0, NullStr)}

\* a caller registers a widget it has not registered before:
\* zmk_widget_status_init up to sys_slist_append
RegisterOver(W) ==
    /\ ThreadFree
    /\ \E w \in W \ Registered, b \in SteadyBattery, o \in SteadyOutput, l \in SteadyLayer :
          LET env == MergeEnv(b, o, l)
          IN  /\ Ran("register", [type |-> "NULL", widget |-> w], env,
                     sys_slist_append(Prog, w))
              /\ reg' = [pc |-> 1, env |-> env]
              /\ UNCHANGED <<unsubmitted, running, origin>>

Register == RegisterOver(WidgetIds)

RegisterOne == RegisterOver({1})

\* zmk_widget_status_init calls its next <listener>_init, which stores the
\* no-event state and calls the listener's work handler
RegisterStep ==
    /\ reg.pc \in 1..Len(InitOrder)
    /\ running.work = "none"
    /\ LET l == InitOrder[reg.pc]
       IN  /\ Ran("init_" \o l, NullEvent, NoEnv, refresh_state_null(Prog, l, reg.env))
           /\ origin' = [origin EXCEPT ![l] = [eh |-> NullEvent, env |-> reg.env]]
           /\ running' = [NoHandler EXCEPT !.work = l, !.init = TRUE]
    /\ reg' = [reg EXCEPT !.pc = @ + 1]
    /\ UNCHANGED unsubmitted

\* an event callback that stored its listener's state submits the work item
SubmitWork ==
    \E l \in Listeners :
        /\ unsubmitted[l] > 0
        /\ Ran("submit_" \o l, NullEvent, NoEnv, k_work_submit_to_queue(Prog, l))
        /\ unsubmitted' = [unsubmitted EXCEPT ![l] = @ - 1]
        /\ UNCHANGED <<reg, running, origin>>

\* the display work queue, its thread free, takes its first work item off
\* the queue and calls its handler
TakeWork ==
    /\ ThreadFree
    /\ work_q # <<>>
    /\ Ran("take_" \o Head(work_q), NullEvent, NoEnv, [Prog EXCEPT !.work_q = Tail(@)])
    /\ running' = [NoHandler EXCEPT !.work = Head(work_q)]
    /\ UNCHANGED <<reg, unsubmitted, origin>>

\* the handler that was called copies its listener's state under the mutex
CopyState ==
    /\ running.work # "none"
    /\ ~running.copied
    /\ LET l == running.work
       IN  /\ Ran("copy_" \o l, NullEvent, NoEnv, Prog)
           /\ running' = [running EXCEPT !.copied = TRUE,
                                         !.state = get_local_state(Prog, l),
                                         !.eh = origin[l].eh,
                                         !.env = origin[l].env]
           /\ origin' = [origin EXCEPT ![l] =
                            IF unsubmitted[l] > 0 \/ Pending(Prog, l)
                            THEN @ ELSE NoOrigin]
    /\ UNCHANGED <<reg, unsubmitted>>

\* the handler runs the update callback on its copy, which came from the
\* event and the getter values in running.eh and running.env; after the last
\* <listener>_init zmk_widget_status_init returns
RunWork ==
    /\ running.copied
    /\ Ran(running.work, running.eh, running.env,
           work_handler(Prog, running.work, running.state, k_uptime_get_32(uptime)))
    /\ running' = NoHandler
    /\ reg' = IF reg.pc > Len(InitOrder) THEN Idle ELSE reg
    /\ UNCHANGED <<unsubmitted, origin>>

BatteryEvent ==
    \E env \in BatteryEnv :
        \E eh \in BatteryEvents :
            Raised("battery", eh, env, widget_battery_status_refresh_state(Prog, eh, env))

OutputEventOver(E, O) ==
    \E eh \in E, env \in O :
        Raised("output", eh, env, widget_output_status_refresh_state(Prog, eh, env))

OutputEvent == OutputEventOver(OutputEvents, OutputEnv)

LayerEventOver(L) ==
    \E eh \in LayerEvents, env \in L :
        Raised("layer", eh, env, widget_layer_status_refresh_state(Prog, eh, env))

LayerEvent == LayerEventOver(LayerEnv)

KeyEventOver(K) ==
    \E eh \in K :
        Raised("keypress", eh, NoEnv, widget_keypress_status_refresh_state(Prog, eh))

KeyEvent == KeyEventOver(KeyEvents(OneKey))

KeyEventTwo == KeyEventOver(KeyEvents(TwoKeys))

Elapse(step) ==
    /\ uptime' = TimeAdd(uptime, step)
    /\ ev' = [kind |-> "tick", eh |-> NullEvent, env |-> NoEnv,
              accepted |-> FALSE, changed |-> FALSE]
    /\ drawn' = <<>>
    /\ UNCHANGED <<HAVE_KEYCODE_EVENTS, CONFIG_USB_DEVICE_STACK, CONFIG_ZMK_BLE,
                   initialized, widgets, wid, last_keypress_render_ms,
                   has_last_keypress_render, stored, work_q, unsubmitted, running,
                   reg, origin, accept_uptime, dropped_since>>

Tick == nticks < MaxTicks /\ nticks' = nticks + 1 /\ njumps' = njumps /\ Elapse(TickStep)

Jump == njumps < MaxJumps /\ njumps' = njumps + 1 /\ nticks' = nticks /\ Elapse(JumpStep)

\* every listener on one widget, with the clock standing still
Next ==
    \/ InitializeDisplay \/ RegisterOne \/ RegisterStep
    \/ SubmitWork \/ TakeWork \/ CopyState \/ RunWork
    \/ BatteryEvent \/ OutputEvent \/ LayerEvent \/ KeyEvent

Spec == Init /\ [][Next]_vars

\* two widgets under the layer and the keypress listener
NextRegistry ==
    \/ InitializeDisplay \/ Register \/ RegisterStep
    \/ SubmitWork \/ TakeWork \/ CopyState \/ RunWork
    \/ LayerEvent \/ KeyEvent

SpecRegistry == InitKeys /\ [][NextRegistry]_vars

\* the keypress listener under a running clock
NextDebounce ==
    \/ InitializeDisplay \/ Register \/ RegisterStep
    \/ SubmitWork \/ TakeWork \/ CopyState \/ RunWork
    \/ KeyEventTwo \/ Tick \/ Jump

SpecDebounce == InitKeys /\ [][NextDebounce]_vars

\* the renderers of one widget over the endpoints and profiles, and over the
\* layers
MaxProfileIndex == 5
MaxLayerIndex == 3
TopLayerIndex == 255

WideOutput ==
    { OutputGetters(t, i, c, o) :
        t \in {"USB", "BLE"}, i \in {0, NumProfileSlots - 1},
        c \in BOOLEAN, o \in BOOLEAN }
    \cup
    { OutputGetters("BLE", i, TRUE, FALSE) : i \in (0 - 1)..MaxProfileIndex }

WideLayer ==
    { LayerGetters(i, n) :
        i \in {0, MaxLayerIndex, TopLayerIndex},
        n \in {NullStr, Str(""), Str("NAV")} }

\* the endpoint event over the wide getter values: the output listener reads
\* nothing from the event
OutputEventWide == OutputEventOver({[type |-> "zmk_endpoint_changed"]}, WideOutput)

LayerEventWide == LayerEventOver(WideLayer)

NextRender ==
    \/ InitializeDisplay \/ RegisterOne \/ RegisterStep
    \/ SubmitWork \/ TakeWork \/ CopyState \/ RunWork
    \/ OutputEvent \/ OutputEventWide

SpecRender == InitRender /\ [][NextRender]_vars

NextLayer ==
    \/ InitializeDisplay \/ RegisterOne \/ RegisterStep
    \/ SubmitWork \/ TakeWork \/ CopyState \/ RunWork
    \/ LayerEventWide

SpecLayer == InitRender /\ [][NextLayer]_vars

\* the decoder over every keycode (or position)
ModifierBytes == {\H00, \H02, \H20, \Hdd}
OtherPages == {\H00, \H01, \H06, \H08, \H0b, \H0d, \Hff}
WidePages == {\H107, \H10c, \Hff07, \H100, \H207}
SampleKeycodes == {\H04, \H1e, \H28, \He2}
BigPosition == 65535

DecoderEvents ==
    IF HAVE_KEYCODE_EVENTS
    THEN [ type : {"zmk_keycode_state_changed"},
           usage_page : {\H07, \H0c}, keycode : 0..MaxKeycode,
           implicit_modifiers : ModifierBytes, explicit_modifiers : ModifierBytes,
           state : {TRUE} ]
         \cup
         [ type : {"zmk_keycode_state_changed"},
           usage_page : OtherPages \cup WidePages, keycode : SampleKeycodes,
           implicit_modifiers : {\H00, \H02}, explicit_modifiers : {\H00, \H20},
           state : {TRUE} ]
    ELSE [ type : {"zmk_position_state_changed"},
           position : (0..MaxPosition) \cup {BigPosition}, state : {TRUE} ]

\* the first key event of the run is raised once the widget is registered
KeyEventDecoder ==
    /\ reg.pc = 0
    /\ widgets # <<>>
    /\ ~has_last_keypress_render
    /\ ~Busy("keypress")
    /\ KeyEventOver(DecoderEvents)

NextDecode ==
    \/ InitializeDisplay \/ RegisterOne \/ RegisterStep
    \/ SubmitWork \/ TakeWork \/ CopyState \/ RunWork
    \/ KeyEventDecoder

SpecDecode == InitKeys /\ [][NextDecode]_vars

\* matched and unmatched presses in turn, under a running clock: "A", an
\* unmapped keyboard id, another usage page, an unmapped consumer id (or
\* position 0 and a position past the table)
MixedKeyEvents ==
    IF HAVE_KEYCODE_EVENTS
    THEN [ type : {"zmk_keycode_state_changed"},
           usage_page : {\H07}, keycode : {\H03, \H04},
           implicit_modifiers : {0}, explicit_modifiers : {0}, state : BOOLEAN ]
         \cup
         [ type : {"zmk_keycode_state_changed"},
           usage_page : {\H01, \H0c}, keycode : {\H04},
           implicit_modifiers : {0}, explicit_modifiers : {0}, state : {TRUE} ]
    ELSE KeyEvents({0, 46})

KeyEventMixed == KeyEventOver(MixedKeyEvents)

NextPlaceholder ==
    \/ InitializeDisplay \/ Register \/ RegisterStep
    \/ SubmitWork \/ TakeWork \/ CopyState \/ RunWork
    \/ KeyEventMixed \/ Tick

SpecPlaceholder == InitKeys /\ [][NextPlaceholder]_vars

(***************************************************************************)
(* Properties.  A step is identified by ev', the record of what it ran:    *)
(* kind "battery", "output", "layer" or "keypress" is a firing of that     *)
(* listener's update callback (from the work queue or from a               *)
(* registration), with the event and getter values its state came from;    *)
(* kind "raise_..." is the listener's event callback storing its state,    *)
(* "submit_..." its submitting the work item, "take_..." the work queue    *)
(* taking the item, "init_..." a registration storing the no-event state   *)
(* and "copy_..." a handler copying the state; drawn' lists the zones the  *)
(* step repainted.                                                         *)
(***************************************************************************)
\* the label a press of key event eh is to show
ExpectedLabel(eh) ==
    LET r == format_key_label("", LastKeySize, keypress_status_get_state(eh))
    IN  IF r.matched THEN r.out
        ELSE IF HAVE_KEYCODE_EVENTS THEN "KEY" ELSE "K" \o Decimal(eh.position)

\* the keypress update callback runs on a press, on a release
PressStep == ev'.kind = "keypress" /\ Pressed(ev'.eh)
ReleaseStep == ev'.kind = "keypress" /\ ev'.eh.type = KeyEventType /\ ~Pressed(ev'.eh)

\* the keypress event callback runs on a release
ReleaseRaised == ev'.kind = "raise_keypress" /\ ~stored'.keypress.pressed

\* one repaint of the top zone per registered widget
TopOfEach == [i \in 1..Len(widgets) |-> [widget |-> widgets[i], zone |-> "top"]]

KeyFieldsKept ==
    \A w \in WidgetIds :
        /\ wid'[w].state.last_key = wid[w].state.last_key
        /\ wid'[w].state.show_last_key = wid[w].state.show_last_key

PressDropped == KeyFieldsKept /\ drawn' = <<>>

PressApplied ==
    /\ \A w \in Registered :
          /\ wid'[w].state.last_key = ExpectedLabel(ev'.eh)
          /\ wid'[w].state.show_last_key
    /\ drawn' = TopOfEach

\* the callback runs with no accepted press before it, or at least 100 ms of
\* the 32-bit uptime counter after the last accepted one
PassesDebounce ==
    \/ ~has_last_keypress_render
    \/ ~U32Less(U32Sub(k_uptime_get_32(uptime), last_keypress_render_ms), 100)

\* the time that really passed since the last accepted press
SinceAccepted == TimeSub(uptime, accept_uptime)

\* C1: of two consecutive presses the update callback runs on, the first of
\* which was accepted, the second changes nothing and repaints nothing when
\* it comes less than 100 ms after the first, and updates the label and
\* repaints the top zone of every widget when it comes 100 ms or more after it.
C1_DebounceByElapsedTime ==
    [][ (PressStep /\ has_last_keypress_render /\ ~dropped_since)
            => IF TimeLess(SinceAccepted, 100) THEN PressDropped ELSE PressApplied
      ]_vars

\* C2: a release event changes no widget's last_key or show_last_key, leaves
\* the debounce timestamp and its flag alone, and repaints nothing, both when
\* it is raised and when the update callback runs on it.
C2_ReleaseIgnored ==
    [][ (ReleaseStep \/ ReleaseRaised)
            => /\ KeyFieldsKept
               /\ UNCHANGED <<last_keypress_render_ms, has_last_keypress_render>>
               /\ drawn' = <<>>
      ]_vars

\* the update callback ran on a release when a key is shown and a press would
\* pass the debounce
C2_Witness ==
    /\ ev.kind = "keypress" /\ ev.eh.type = KeyEventType /\ ~Pressed(ev.eh)
    /\ has_last_keypress_render
    /\ ~TimeLess(SinceAccepted, 100)
    /\ \E w \in Registered : wid[w].state.show_last_key

\* what a widget shows as its last key: the text painted in the top zone
ShownKey(w) == wid[w].canvas.top.key_text

LabelKept ==
    \A w \in WidgetIds :
        /\ wid'[w].state.last_key = wid[w].state.last_key
        /\ wid'[w].canvas.top.key_text = wid[w].canvas.top.key_text

LabelSet ==
    \A w \in Registered :
        /\ wid'[w].state.last_key = ExpectedLabel(ev'.eh)
        /\ wid'[w].canvas.top.key_shown
        /\ wid'[w].canvas.top.key_text = ExpectedLabel(ev'.eh)

\* C4 as claimed: every press the update callback runs on makes every widget
\* show the label of that press, and no other step changes the label shown.
C4_LabelIsLastPress ==
    [][ IF PressStep THEN LabelSet ELSE LabelKept ]_vars

\* C4 as amended: a press that the update callback runs on and that passes the
\* debounce makes every registered widget show its label; a press dropped by
\* the debounce, a release and every other step keep the label each widget
\* shows.
C4_LabelIsLastAcceptedPress ==
    [][ IF PressStep /\ PassesDebounce THEN LabelSet ELSE LabelKept ]_vars

\* a press was dropped and a widget still shows the label of an earlier key
C4_Witness ==
    /\ ev.kind = "keypress" /\ Pressed(ev.eh) /\ ~ev.accepted
    /\ \E w \in Registered :
          /\ wid[w].state.show_last_key
          /\ ShownKey(w) = wid[w].state.last_key
          /\ ShownKey(w) # ExpectedLabel(ev.eh)

\* C8: show_last_key is false at the start; it changes only on a press that
\* passes the debounce, only for a registered widget and only to true; such a
\* press sets it for every registered widget, matched by the decoder or not.
C8_ShowLastKey ==
    /\ \A w \in WidgetIds : ~wid[w].state.show_last_key
    /\ [][ \A w \in WidgetIds :
             /\ wid'[w].state.show_last_key # wid[w].state.show_last_key
                   => /\ wid'[w].state.show_last_key
                      /\ w \in Registered
                      /\ PressStep /\ PassesDebounce
             /\ (PressStep /\ PassesDebounce /\ w \in Registered)
                   => wid'[w].state.show_last_key
         ]_vars

\* an unmatched press is shown on one widget while a widget registered after
\* it still shows no key
C8_Witness ==
    \E w1 \in Registered, w2 \in Registered :
        /\ reg.pc = 0
        /\ wid[w1].state.show_last_key
        /\ wid[w1].state.last_key \in {"KEY", "K46"}
        /\ ~wid[w2].state.show_last_key

\* the fields of a snapshot by the listener that owns them
BatteryFields(s) == <<s.battery, s.charging>>
OutputFields(s) ==
    <<s.selected_endpoint, s.active_profile_index,
      s.active_profile_connected, s.active_profile_bonded>>
LayerFields(s) == <<s.layer_index, s.layer_label>>
KeyFields(s) == <<s.last_key, s.show_last_key>>

\* C3: after a listener's update callback ran, every registered widget holds
\* the same new values in the fields the listener owns, those of the
\* listener's state; a press is applied to every registered widget or to none.
C3_BroadcastConsistency ==
    [][ LET R == {widgets'[i] : i \in 1..Len(widgets')}
            b == battery_status_get_state(ev'.eh, ev'.env)
            o == output_status_get_state(ev'.eh, ev'.env)
            l == layer_status_get_state(ev'.eh, ev'.env)
        IN  /\ ev'.kind = "battery" =>
                  \A w1 \in R, w2 \in R :
                      /\ wid'[w1].state.battery = b.level
                      /\ BatteryFields(wid'[w1].state) = BatteryFields(wid'[w2].state)
            /\ ev'.kind = "output" =>
                  \A w \in R :
                      OutputFields(wid'[w].state) =
                          <<o.selected_endpoint, o.active_profile_index,
                            o.active_profile_connected, o.active_profile_bonded>>
            /\ ev'.kind = "layer" =>
                  \A w \in R : LayerFields(wid'[w].state) = <<l.index, l.label>>
            /\ PressStep =>
                  \/ \A w \in R :
                        KeyFields(wid'[w].state) = <<ExpectedLabel(ev'.eh), TRUE>>
                  \/ \A w \in WidgetIds :
                        KeyFields(wid'[w].state) = KeyFields(wid[w].state)
      ]_vars

\* a press was applied while two widgets were registered
C3_Witness ==
    /\ Len(widgets) >= 2
    /\ ev.kind = "keypress" /\ ev.accepted
    /\ \A w \in Registered : wid[w].state.show_last_key

\* the zones repainted for widget w by the step, in order
ZonesOf(w) ==
    LET mine == SelectSeq(drawn, LAMBDA d : d.widget = w)
    IN  [i \in 1..Len(mine) |-> mine[i].zone]

ZonesDue ==
    CASE ev.kind = "battery" -> <<"top">>
      [] ev.kind = "output" -> <<"top", "middle">>
      [] ev.kind = "layer" -> <<"bottom">>
      [] ev.kind = "keypress" /\ ev.accepted -> <<"top">>
      [] OTHER -> <<>>

\* C5: a firing of the battery listener repaints exactly the top zone of each
\* registered widget, one of the output listener the top and the middle zone,
\* one of the layer listener the bottom zone, an accepted press the top zone;
\* a dropped press, a release and every other step repaint nothing; this
\* holds whether or not the step changed a value.
C5_ZoneRedrawPolicy ==
    \A w \in WidgetIds :
        ZonesOf(w) = IF w \in Registered THEN ZonesDue ELSE <<>>

\* a battery firing that changed no field still repainted the top zone
C5_Witness ==
    /\ ev.kind = "battery" /\ ~ev.changed
    /\ ev.eh.type = "zmk_battery_state_changed"
    /\ Registered # {}
    /\ \A w \in Registered : ZonesOf(w) = <<"top">>

\* C6: a battery firing leaves the output, layer and key fields of every
\* widget unchanged; an output firing the battery, layer and key fields; a
\* layer firing the battery, output and key fields; a keypress firing the
\* battery, output and layer fields; only a keypress firing touches the
\* debounce globals, and a step that is no firing changes no snapshot.
C6_FieldOwnership ==
    [][ \A w \in WidgetIds :
            LET s == wid[w].state
                t == wid'[w].state
            IN  /\ ev'.kind = "battery" =>
                      /\ OutputFields(t) = OutputFields(s)
                      /\ LayerFields(t) = LayerFields(s)
                      /\ KeyFields(t) = KeyFields(s)
                /\ ev'.kind = "output" =>
                      /\ BatteryFields(t) = BatteryFields(s)
                      /\ LayerFields(t) = LayerFields(s)
                      /\ KeyFields(t) = KeyFields(s)
                /\ ev'.kind = "layer" =>
                      /\ BatteryFields(t) = BatteryFields(s)
                      /\ OutputFields(t) = OutputFields(s)
                      /\ KeyFields(t) = KeyFields(s)
                /\ ev'.kind = "keypress" =>
                      /\ BatteryFields(t) = BatteryFields(s)
                      /\ OutputFields(t) = OutputFields(s)
                      /\ LayerFields(t) = LayerFields(s)
                /\ ev'.kind # "keypress" =>
                      UNCHANGED <<last_keypress_render_ms, has_last_keypress_render>>
                /\ ev'.kind \notin {"battery", "output", "layer", "keypress"} => t = s
      ]_vars

\* a battery firing changed a widget whose other fields all hold values set by
\* the other listeners
C6_Witness ==
    /\ ev.kind = "battery" /\ ev.changed
    /\ \E w \in Registered :
          /\ wid[w].state.show_last_key
          /\ wid[w].state.layer_index = 3
          /\ wid[w].state.selected_endpoint.transport = "USB"
          /\ wid[w].state.battery = 7

InitsDone == reg.pc - 1 - (IF running.work = "none" THEN 0 ELSE 1)

\* widget w is the one being registered and the n-th <listener>_init, which
\* paints the zone for the first time, has not yet returned
BeforePaint(w, n) == reg.pc # 0 /\ InitsDone < n /\ w = widgets[Len(widgets)]

\* C9: once painted, the middle zone marks the slot whose position is active_profile_index
\* and no other slot; for an index outside 0..4 it marks none.
C9_ProfileSelection ==
    \A w \in Registered :
        ~BeforePaint(w, 2) =>
            LET idx == wid[w].state.active_profile_index
                sel == {i \in Slots : wid[w].canvas.middle[i].selected}
            IN  /\ idx \in 0..4 => sel = {idx}
                /\ idx \notin 0..4 => sel = {}
                /\ Cardinality(sel) <= 1

\* the last slot is the selected one
C9_Witness ==
    \E w \in Registered :
        /\ wid[w].state.active_profile_index = 4
        /\ ev.kind = "output"
        /\ ev.eh.type # "NULL"
        /\ wid[w].canvas.middle[4].selected

\* the place of widget w in the registry
Place(w) == CHOOSE i \in 1..Len(widgets) : widgets[i] = w

\* d visits the widgets in registry order
InRegistryOrder(d) ==
    \A i \in 1..Len(d), j \in 1..Len(d) :
        i < j => Place(d[i].widget) <= Place(d[j].widget)

DrawnInOrder == InRegistryOrder(drawn)

\* C10: a registration puts the widget at the tail of the registry and no
\* other step changes the registry; every firing repaints the widgets in
\* registry order.
C10_RegistrationOrder ==
    [][ /\ ev'.kind = "register" => widgets' = Append(widgets, ev'.eh.widget)
        /\ ev'.kind # "register" => widgets' = widgets
        /\ DrawnInOrder'
      ]_vars

\* widget 2 was registered before widget 1 and is repainted before it
C10_Witness ==
    /\ widgets = <<2, 1>>
    /\ ev.kind = "layer"
    /\ drawn = <<[widget |-> 2, zone |-> "bottom"], [widget |-> 1, zone |-> "bottom"]>>

\* the state after the update callback ran on a press that passed the
\* debounce, in the build with keycode events
KeycodePressShown == HAVE_KEYCODE_EVENTS /\ ev.kind = "keypress" /\ ev.accepted

\* the usage page the decoder is given for key event eh
PageSeen(eh) == keypress_status_get_state(eh).usage_page

\* the keyboard-page usage ids that have two labels
TwoLabelIds == (\H1e..\H27) \cup (\H2d..\H31) \cup (\H33..\H38)

\* a left-shift (bit 1) or right-shift (bit 5) bit is set in byte b
HasShiftBit(b) == (b % 4) >= 2 \/ (b % 64) >= 32

\* what the decoder gives for keyboard usage id k with the given modifiers
DecodedKey(k, implicit, explicit) ==
    format_key_label("", LastKeySize,
        [usage_page |-> \H07, keycode |-> k, implicit_modifiers |-> implicit,
         explicit_modifiers |-> explicit, pressed |-> TRUE])

\* C11: on page 0x07 every id with two labels shows its shifted label (the one
\* decoded with only left shift held) if a shift bit is set in the implicit or
\* in the explicit modifiers, and its unshifted label (the one decoded with
\* no modifier) otherwise; the two labels differ; id 0x1E gives "1" and "!".
C11_ShiftSensitivity ==
    (KeycodePressShown /\ PageSeen(ev.eh) = \H07 /\ ev.eh.keycode \in TwoLabelIds) =>
        LET k == ev.eh.keycode
            plain == DecodedKey(k, 0, 0)
            shift == DecodedKey(k, 0, \H02)
            held == \/ HasShiftBit(ev.eh.implicit_modifiers)
                    \/ HasShiftBit(ev.eh.explicit_modifiers)
        IN  /\ plain.matched /\ shift.matched /\ plain.out # shift.out
            /\ k = \H1e => (plain.out = "1" /\ shift.out = "!")
            /\ \A w \in Registered :
                  wid[w].state.last_key = IF held THEN shift.out ELSE plain.out

\* right shift held in the implicit modifiers alone gave the shifted label
C11_Witness ==
    /\ KeycodePressShown
    /\ ev.eh.usage_page = \H07 /\ ev.eh.keycode = \H1e
    /\ ev.eh.implicit_modifiers = \H20 /\ ev.eh.explicit_modifiers = \H00
    /\ 1 \in Registered /\ wid[1].state.last_key = "!"

Alphabet == "ABCDEFGHIJKLMNOPQRSTUVWXYZ"

\* the character 'A' + n
LetterAt(n) == SubSeq(Alphabet, n + 1, n + 1)

\* what the decoder gives for key event eh
Decoded(eh) == format_key_label("", LastKeySize, keypress_status_get_state(eh))

\* C12: on page 0x07 every id in 0x04..0x1D is matched and shows the single
\* letter 'A' + (id - 0x04), whatever the modifiers; an id outside that range
\* (0x03 and 0x1E among them) shows no single letter.
C12_LetterRange ==
    (KeycodePressShown /\ PageSeen(ev.eh) = \H07) =>
        LET k == ev.eh.keycode
        IN  \A w \in Registered :
                IF k >= \H04 /\ k <= \H1d
                THEN /\ Decoded(ev.eh).matched
                     /\ wid[w].state.last_key = LetterAt(k - \H04)
                ELSE \A n \in 0..25 : wid[w].state.last_key # LetterAt(n)

\* the last id of the range gave "Z" with a shift bit set
C12_Witness ==
    /\ KeycodePressShown
    /\ ev.eh.usage_page = \H07 /\ ev.eh.keycode = \H1d
    /\ ev.eh.explicit_modifiers = \H02
    /\ 1 \in Registered /\ wid[1].state.last_key = "Z"

\* the six mapped consumer ids and their labels
ConsumerTable ==
    (\He2 :> "MUTE") @@ (\He9 :> "VOL+") @@ (\Hea :> "VOL-") @@
    (\Hb5 :> "NEXT") @@ (\Hb6 :> "PREV") @@ (\Hcd :> "PLAY")

\* the keyboard-page ids that are letters or have a table entry
KeyboardIds ==
    (\H04..\H1d) \cup (\H1e..\H31) \cup (\H33..\H38) \cup (\H3a..\H45)
    \cup (\H4a..\H52) \cup (\He0..\He7)

\* C13: when the decoder is given page 0x0C every id is matched and shows its
\* table label if it is one of the six mapped ids and "MEDIA" otherwise; when
\* it is given page 0x07 an id that is neither a letter nor a table entry is
\* unmatched, and the others are matched; when it is given any other page
\* every id is unmatched.
C13_ConsumerFallback ==
    KeycodePressShown =>
        LET k == ev.eh.keycode
            page == PageSeen(ev.eh)
            r == Decoded(ev.eh)
        IN  /\ page = \H0c =>
                  /\ r.matched
                  /\ \A w \in Registered :
                        wid[w].state.last_key =
                            IF k \in DOMAIN ConsumerTable THEN ConsumerTable[k] ELSE "MEDIA"
            /\ page = \H07 => (r.matched <=> k \in KeyboardIds)
            /\ page \notin {\H07, \H0c} =>
                  /\ ~r.matched
                  /\ \A w \in Registered : wid[w].state.last_key = "KEY"

\* an unmapped consumer id gave "MEDIA"
C13_Witness ==
    /\ KeycodePressShown
    /\ ev.eh.usage_page = \H0c /\ ev.eh.keycode = \H04
    /\ 1 \in Registered /\ wid[1].state.last_key = "MEDIA"

\* the state after the update callback ran on a press that passed the
\* debounce, in the build with position events
PositionPressShown == ~HAVE_KEYCODE_EVENTS /\ ev.kind = "keypress" /\ ev.accepted

\* "K" followed by the decimal position
PositionPlaceholder(p) == "K" \o Decimal(p)

\* C14: a press at a position below the table length (46) shows the table
\* entry of that position (position 0 shows "TAB") and is matched; a press at
\* a position at or above it is unmatched and shows "K" followed by the
\* decimal position.
C14_PositionalFallback ==
    PositionPressShown =>
        LET p == ev.eh.position
        IN  /\ Len(default_key_labels) = 46
            /\ Decoded(ev.eh).matched <=> p < 46
            /\ \A w \in Registered :
                  wid[w].state.last_key =
                      IF p < 46 THEN default_key_labels[p + 1]
                      ELSE PositionPlaceholder(p)
            /\ p = 0 => \A w \in Registered : wid[w].state.last_key = "TAB"

\* the first position past the table gave "K46"
C14_Witness ==
    /\ PositionPressShown
    /\ ev.eh.position = 46
    /\ 1 \in Registered /\ wid[1].state.last_key = "K46"

\* C15: in the build with keycode events, a press that passes the debounce
\* and that the decoder does not match sets the label of every registered
\* widget to "KEY" (the label shown before is not kept), sets show_last_key,
\* records the time of the callback in the debounce globals and repaints the
\* top zone of every registered widget.
C15_UnmatchedPlaceholder ==
    [][ (HAVE_KEYCODE_EVENTS /\ PressStep /\ PassesDebounce /\ ~Decoded(ev'.eh).matched)
            => /\ \A w \in Registered :
                     /\ wid'[w].state.last_key = "KEY"
                     /\ wid'[w].state.show_last_key
               /\ last_keypress_render_ms' = k_uptime_get_32(uptime)
               /\ has_last_keypress_render'
               /\ drawn' = TopOfEach
      ]_vars

\* a press on another usage page, accepted 100 ms after the start, put "KEY"
\* on both widgets
C15_Witness ==
    /\ HAVE_KEYCODE_EVENTS
    /\ ev.kind = "keypress" /\ ev.accepted /\ ev.eh.usage_page = \H01
    /\ last_keypress_render_ms = [hi |-> 0, lo |-> 100]
    /\ Len(widgets) = 2
    /\ \A w \in Registered : wid[w].state.last_key = "KEY" /\ wid[w].state.show_last_key

\* C16: once painted, the bottom zone of a registered widget shows "LAYER " followed by the
\* decimal layer_index when layer_label is NULL or empty (index 3 gives
\* "LAYER 3"), and the label itself, whatever the index, when it is not empty.
C16_LayerLabelFallback ==
    \A w \in Registered :
        ~BeforePaint(w, 3) =>
            LET s == wid[w].state
                text == wid[w].canvas.bottom
            IN  IF s.layer_label.null \/ s.layer_label.s = ""
                THEN /\ text = "LAYER " \o Decimal(s.layer_index)
                     /\ s.layer_index = 3 => text = "LAYER 3"
                ELSE text = s.layer_label.s

\* an empty, non-NULL label on layer 3 was rendered as "LAYER 3"
C16_Witness ==
    /\ ev.kind = "layer"
    /\ \E w \in Registered :
          /\ wid[w].state.layer_label = Str("")
          /\ wid[w].state.layer_index = 3
          /\ wid[w].canvas.bottom = "LAYER 3"

\* C17: when the update callback runs on a press, decoding it into the label
\* buffer of any widget, whatever that buffer holds and whatever the debounce
\* globals and the other fields are, gives the same matched flag and, when
\* matched, the same label as decoding it into an empty buffer; an accepted
\* matched press shows exactly that label on every registered widget.
C17_DecoderDeterminism ==
    [][ PressStep =>
            LET state == keypress_status_get_state(ev'.eh)
                r0 == format_key_label("", LastKeySize, state)
            IN  \A w \in WidgetIds :
                    LET r == format_key_label(wid[w].state.last_key, LastKeySize, state)
                    IN  /\ r.matched = r0.matched
                        /\ r.matched => r.out = r0.out
                        /\ (ev'.accepted /\ w \in Registered /\ r0.matched)
                               => wid'[w].state.last_key = r0.out
      ]_vars

\* the same key was decoded at a later time into two widgets
C17_Witness ==
    /\ ev.kind = "keypress" /\ ev.accepted
    /\ last_keypress_render_ms = [hi |-> 0, lo |-> 150]
    /\ Len(widgets) = 2
    /\ Decoded(ev.eh).matched
    /\ \A w \in Registered : wid[w].state.last_key = Decoded(ev.eh).out

\* C18: a dropped press leaves the debounce timestamp as it was, and a press
\* the update callback runs on 100 ms or more after the most recent accepted
\* press is accepted and applied, whether or not presses were dropped in
\* between.
C18_WindowFromLastAccepted ==
    [][ /\ (PressStep /\ ~ev'.accepted) =>
               UNCHANGED <<last_keypress_render_ms, has_last_keypress_render>>
        /\ (PressStep /\ has_last_keypress_render /\ ~TimeLess(SinceAccepted, 100)) =>
               (ev'.accepted /\ PressApplied)
      ]_vars

\* C19: a press the update callback runs on when 100 ms or more have really
\* passed since the last accepted press is never dropped, however far the
\* uptime has advanced and whether or not its 32-bit counter wrapped in
\* between.
C19_NoDropAcrossWrap ==
    [][ (PressStep /\ has_last_keypress_render /\ ~TimeLess(SinceAccepted, 100))
            => ev'.accepted
      ]_vars

\* C20: no render is recorded at start; a press the update callback runs on
\* while none is recorded is accepted and applied whatever the uptime; the
\* flag is set only by an accepted press and is never cleared.
C20_FirstPressAccepted ==
    /\ ~has_last_keypress_render
    /\ [][ /\ (PressStep /\ ~has_last_keypress_render) =>
                  (ev'.accepted /\ PressApplied /\ has_last_keypress_render')
           /\ has_last_keypress_render => has_last_keypress_render'
           /\ (has_last_keypress_render' /\ ~has_last_keypress_render) =>
                  (PressStep /\ ev'.accepted)
         ]_vars

\* the first press was run at uptime 50 ms and was accepted
C20_Witness ==
    /\ ev.kind = "keypress" /\ ev.accepted
    /\ uptime = [hi |-> 0, lo |-> 50]
    /\ last_keypress_render_ms = [hi |-> 0, lo |-> 50]
    /\ has_last_keypress_render
    /\ \E w \in Registered : wid[w].state.show_last_key

\* the step is the update callback of listener l called by <listener>_init
\* on the no-event state
InitFires(l) ==
    /\ running.init /\ running.copied /\ running.work = l
    /\ ev'.kind = l /\ ev'.eh = NullEvent

\* C21: the no-event path of each reducer, run by a registration, sets the
\* battery, the endpoint and the layer fields of every registered widget, the
\* new one and the earlier ones, to the values the getters returned; the
\* keypress reducer's no-event path changes no widget's last_key or
\* show_last_key, repaints nothing and leaves the debounce globals alone, so
\* the new widget has show_last_key false and the earlier ones keep their
\* label.
C21_RegistrationPopulates ==
    [][ LET g == ev'.env
        IN  /\ InitFires("battery") =>
                  \A w \in Registered :
                      /\ wid'[w].state.battery = g.zmk_battery_state_of_charge
                      /\ wid'[w].state.charging =
                             IF CONFIG_USB_DEVICE_STACK
                             THEN g.zmk_usb_is_powered
                             ELSE wid[w].state.charging
            /\ InitFires("output") =>
                  \A w \in Registered :
                      OutputFields(wid'[w].state) =
                          <<g.zmk_endpoints_selected, g.zmk_ble_active_profile_index,
                            g.zmk_ble_active_profile_is_connected,
                            ~g.zmk_ble_active_profile_is_open>>
            /\ InitFires("layer") =>
                  \A w \in Registered :
                      LayerFields(wid'[w].state) =
                          <<g.zmk_keymap_highest_layer_active, g.zmk_keymap_layer_name>>
            /\ InitFires("keypress") =>
                  /\ KeyFieldsKept
                  /\ UNCHANGED <<last_keypress_render_ms, has_last_keypress_render>>
                  /\ drawn' = <<>>
                  /\ ~wid'[widgets[Len(widgets)]].state.show_last_key
      ]_vars

\* a second widget was registered after a press: its fields hold the getter
\* values, the first widget keeps its key and the second shows none
C21_Witness ==
    /\ ev.kind = "keypress" /\ ev.eh = NullEvent
    /\ reg.pc = 0
    /\ Len(widgets) = 2
    /\ has_last_keypress_render
    /\ wid[widgets[1]].state.show_last_key
    /\ wid[widgets[1]].state.last_key \in {"A", "TAB"}
    /\ ~wid[widgets[2]].state.show_last_key
    /\ wid[widgets[2]].state.battery = 100
    /\ wid[widgets[2]].state.active_profile_index = 4

\* C22: once painted, the top zone of a registered widget shows exactly one of the four
\* glyphs: the USB glyph on transport USB whatever the profile flags; on
\* transport BLE the settings glyph when the profile is not bonded, whatever
\* the connected flag, the Bluetooth glyph when bonded and connected, and the
\* close glyph when bonded and not connected; after the output listener
\* fired, bonded is the negation of what the is-open getter returned for it.
C22_ConnectionGlyph ==
    \A w \in Registered :
        ~BeforePaint(w, 1) =>
            LET s == wid[w].state
                glyph == wid[w].canvas.top.output_text
            IN  /\ glyph \in {"LV_SYMBOL_USB", "LV_SYMBOL_SETTINGS",
                              "BLE_CONNECTED_SYMBOL", "LV_SYMBOL_CLOSE"}
                /\ s.selected_endpoint.transport = "USB" => glyph = "LV_SYMBOL_USB"
                /\ (s.selected_endpoint.transport = "BLE" /\ ~s.active_profile_bonded)
                       => glyph = "LV_SYMBOL_SETTINGS"
                /\ (/\ s.selected_endpoint.transport = "BLE"
                    /\ s.active_profile_bonded /\ s.active_profile_connected)
                       => glyph = "BLE_CONNECTED_SYMBOL"
                /\ (/\ s.selected_endpoint.transport = "BLE"
                    /\ s.active_profile_bonded /\ ~s.active_profile_connected)
                       => glyph = "LV_SYMBOL_CLOSE"
                /\ ev.kind = "output" =>
                       s.active_profile_bonded = ~ev.env.zmk_ble_active_profile_is_open

\* an open profile that is connected shows the settings glyph
C22_Witness ==
    /\ ev.kind = "output"
    /\ ev.env.zmk_ble_active_profile_is_open
    /\ \E w \in Registered :
          /\ wid[w].state.selected_endpoint.transport = "BLE"
          /\ wid[w].state.active_profile_connected
          /\ ~wid[w].state.active_profile_bonded
          /\ wid[w].canvas.top.output_text = "LV_SYMBOL_SETTINGS"

====
